---------------------------- MODULE Spec2Model ----------------------------
(***************************************************************************)
(* Order lifecycle and persistence engine of the coffee-shop POS.          *)
(*                                                                         *)
(* The store is the SQLite file written by DatabaseManager                 *)
(* (src/database/db_manager.py, and the reduced copy in src/main.py).      *)
(* Every create_order call opens a connection of its own; Python's sqlite3 *)
(* opens a transaction before the first INSERT, the INSERT takes the       *)
(* file's single write lock, and other connections read committed rows     *)
(* only.  A transaction's rows are therefore kept in a buffer of the       *)
(* connection (pend_order, pend_items) until conn.commit() appends them to *)
(* the tables.  An exception leaves create_order without a commit: the     *)
(* with block rolls back (db_manager.py), or the connection is dropped     *)
(* unclosed and its transaction ends with it (main.py).  No connection     *)
(* issues PRAGMA foreign_keys = ON, so SQLite checks no FOREIGN KEY clause *)
(* of the schema; UNIQUE and NOT NULL are checked.                         *)
(*                                                                         *)
(* Money is counted in mils (1/100 of a cent), so that subtotal * 0.08 is  *)
(* exact: a price of 2.50 is 25000 (the code computes in binary floating   *)
(* point, whose rounding noise is not modelled).  The columns              *)
(* payment_method, cashier_name, description, image_url and customizations *)
(* are copied from the arguments into the row and read by no operation     *)
(* modelled here; they are left out of the rows.  Order numbers are kept   *)
(* as the sequence of decimal digits that follows the constant prefix      *)
(* "ORD".  The field src of a row is a history field: the connection (or   *)
(* Seeder) whose transaction wrote it.                                     *)
(*                                                                         *)
(* The tables are kept by column groups: products holds the price of each  *)
(* product and catalog its name, category and is_available; the rows of    *)
(* customers and users are kept by their UNIQUE column.                    *)
(*                                                                         *)
(* The specifications: Spec is create_order on two connections with the    *)
(* clock and a price edit; SpecStore is one create_order call among the    *)
(* read operations; SpecCart is the cart of a till; SpecTill is the till   *)
(* of main.py, whose charge calls create_order; SpecTab is the till of     *)
(* NewOrderTab, whose charge does not; SpecStock is get_low_stock_items    *)
(* over any inventory; SpecCatalog is get_products_by_category and         *)
(* get_product_options over any catalog; SpecSeed is one run of            *)
(* _generate_dummy_orders over a catalog; SpecConstruct is a sequence of   *)
(* constructor calls on a store that starts empty.                         *)
(***************************************************************************)
EXTENDS Integers, Sequences, FiniteSets, TLC

(* ------------------------------ bounds -------------------------------- *)

\* Longest line-item list passed to create_order.
MaxItems == 2

\* Seconds the wall clock advances during a run.
MaxClock == 1

\* Products of the seeded catalog that are modelled (the code seeds 17).
NumProducts == 3

\* Days of order history the synthesizer back-fills (the code: 30).
SynthDays == 1

\* Largest quantity a cart line is driven to.
MaxCartQty == 3

\* Charges a till of NewOrderTab makes.
MaxCharges == 1

\* How far below and above min_stock the stock levels of a report lie.
StockSpread == 2

\* Constructor calls made on one store.
MaxConstructions == 3

(* ------------------------- program constants -------------------------- *)

\* tax = subtotal * 0.08
TaxPercent == 8

\* random.randint(5, 15): the fewest orders of a synthesized day.
MinDailyOrders == 5

\* random.randint(5, 15): the most orders of a synthesized day.
MaxDailyOrders == 15

\* random.randint(1, 4): the most line items drawn for a synthesized order.
MaxNumItems == 4

\* random.randint(1, 3): the largest quantity drawn for a line item.
MaxQuantity == 3

\* random.randint(15, 50): the lowest stock the seeding gives a product.
LowestSeedStock == 15

\* random.randint(15, 50): the highest stock a product is seeded with
HighestSeedStock == 50

\* INSERT INTO inventory ... VALUES (?, ?, 10, 100): min_stock of every row.
SeedMinStock == 10

\* self.order_number = 123: the counter a till starts with.
FirstOrderNumber == 123

(* ------------------------------ helpers ------------------------------- *)

\* customer_id None (an anonymous sale); customer ids start at 1.
NoCustomer == 0

\* The src of the rows written by the constructor's seeding transaction.
Seeder == 0

\* The connections that call create_order, one call each: two tills on
\* the same store file.
Conns == { 1, 2 }

\* The connection of the till whose cart is modelled.
TillConn == 1

\* Prices of the seeded catalog in insertion order (product id = position).
SeedPrices ==
    << 25000, 35000, 35000, 30000, 40000, 37500, 27500, 25000, 25000,
       32500, 20000, 25000, 27500, 15000, 30000, 15000, 22500 >>

\* Names of the seeded catalog in insertion order.
SeedNames ==
    << "Espresso", "Latte", "Cappuccino", "Americano", "Mocha", "Macchiato",
       "Earl Grey", "Green Tea", "Chamomile", "Chai Latte", "Croissant",
       "Blueberry Muffin", "Danish", "Chocolate Chip Cookie", "Orange Juice",
       "Bottled Water", "Granola Bar" >>

ProductIds == 1 .. NumProducts

RECURSIVE Digits(_, _)
\* The w-digit, zero-padded decimal rendering of n (wider when n needs it),
\* as strftime's fixed-width fields and f"{n:03d}" produce it.
Digits(n, w) ==
    IF w <= 1 /\ n < 10 THEN << n >>
    ELSE Append(Digits(n \div 10, w - 1), n % 10)

\* The calendar day with index d, as the number strftime('%Y%m%d') prints.
\* Index SynthDays is the day the program runs on; the model's days all
\* fall in one month.
DateNumber(d) == 20260101 + d

Today == SynthDays

\* strftime('%H%M%S') of the s-th second of the day, as a number.
TimeNumber(s) == (s \div 3600) * 10000 + ((s \div 60) % 60) * 100 + (s % 60)

\* f"ORD{datetime.now().strftime('%Y%m%d%H%M%S')}"
FinalizeOrderNumber(day, sec) ==
    Digits(DateNumber(day), 8) \o Digits(TimeNumber(sec), 6)

\* An order number that leaves out the sequence number of the day.
DummyOrderNumberOfDay(day, order_num) == Digits(DateNumber(day), 8)

\* f"ORD{order_date.strftime('%Y%m%d')}{order_num:03d}"
DummyOrderNumber(day, order_num) ==
    Digits(DateNumber(day), 8) \o Digits(order_num, 3)

RECURSIVE SumLines(_)
\* sum(item['quantity'] * item['unit_price'] for item in order_items)
SumLines(items) ==
    IF items = << >> THEN 0
    ELSE items[1].quantity * items[1].unit_price + SumLines(Tail(items))

\* tax = subtotal * 0.08, unrounded
TaxOf(subtotal) == (subtotal * TaxPercent) \div 100

(* --------------------------- historical data --------------------------- *)

\* One synthesized order: draw holds the random choices (customer, the
\* sampled products in order, a quantity for each); prices is the products
\* table read at the start of the run.  The result is the orders row and
\* the line items of the order.
DummyOrder(order_id, day, order_num, draw, prices) ==
    LET lines == [i \in 1 .. Len(draw.sample) |->
                    [product_id |-> draw.sample[i],
                     quantity   |-> draw.qty[i],
                     unit_price |-> prices[draw.sample[i]]]]
        subtotal == SumLines(lines)
        tax == TaxOf(subtotal)
    IN  [order |-> [id |-> order_id, customer_id |-> draw.customer,
                    order_number |-> DummyOrderNumber(day, order_num),
                    subtotal |-> subtotal, tax |-> tax,
                    total |-> subtotal + tax,
                    created_day |-> day, src |-> Seeder],
         lines |-> lines]

\* One synthesized order appended to a store [orders, items].
AppendDummyOrder(store, day, order_num, draw, prices) ==
    LET order_id == Len(store.orders) + 1
        o == DummyOrder(order_id, day, order_num, draw, prices)
        rows == [i \in 1 .. Len(o.lines) |->
                    [id |-> Len(store.items) + i, order_id |-> order_id,
                     product_id |-> o.lines[i].product_id,
                     quantity |-> o.lines[i].quantity,
                     unit_price |-> o.lines[i].unit_price, src |-> Seeder]]
    IN  [orders |-> Append(store.orders, o.order), items |-> store.items \o rows]

RECURSIVE GenerateDay(_, _, _, _, _)
\* The inner loop: for order_num in range(daily_orders); draws are the
\* orders of the day that are still to be written.
GenerateDay(store, day, order_num, draws, prices) ==
    IF draws = << >> THEN store
    ELSE GenerateDay(AppendDummyOrder(store, day, order_num, Head(draws), prices),
                     day, order_num + 1, Tail(draws), prices)

RECURSIVE GenerateDummyOrders(_, _, _, _)
\* The outer loop: for day in range(30); plan[k] holds the draws of day k-1.
GenerateDummyOrders(store, day, plan, prices) ==
    IF day >= Len(plan) THEN store
    ELSE GenerateDummyOrders(GenerateDay(store, day, 0, plan[day + 1], prices),
                             day + 1, plan, prices)

\* The catalog after seeding: price by product id.
SeededProducts == [p \in ProductIds |-> SeedPrices[p]]

\* The draws of a history in which every day has n orders: anonymous
\* one-line orders cycling over the catalog and over the quantities 1..3.
SeedPlan(n) ==
    [d \in 1 .. SynthDays |->
        [k \in 1 .. n |->
            [customer |-> NoCustomer,
             sample   |-> << ((k - 1) % NumProducts) + 1 >>,
             qty      |-> << ((k - 1) % 3) + 1 >>]]]

\* The orders and order_items tables as the constructor commits them.
SeededStore(n) ==
    GenerateDummyOrders([orders |-> << >>, items |-> << >>], 0, SeedPlan(n),
                        SeededProducts)

(* ------------------------------ seed data ------------------------------ *)

\* The category of each seeded product, in insertion order (the id order).
SeedCategories ==
    << "Coffee", "Coffee", "Coffee", "Coffee", "Coffee", "Coffee",
       "Tea", "Tea", "Tea", "Tea",
       "Pastries", "Pastries", "Pastries", "Pastries",
       "Other", "Other", "Other" >>

\* The columns name, category and is_available of the seeded products; the
\* INSERT names no is_available, which takes its DEFAULT 1.
SeededCatalog ==
    [p \in ProductIds |->
        [name |-> SeedNames[p], category |-> SeedCategories[p],
         is_available |-> TRUE]]

\* The product_options rows of the seeding, in insertion order (the id
\* order); price_modifier is read by no operation modelled here.
SeededOptions ==
    << [product_id |-> 1, option_name |-> "Milk Type", option_value |-> "Whole Milk"],
       [product_id |-> 1, option_name |-> "Milk Type", option_value |-> "Almond Milk"],
       [product_id |-> 1, option_name |-> "Milk Type", option_value |-> "Oat Milk"],
       [product_id |-> 1, option_name |-> "Milk Type", option_value |-> "Soy Milk"],
       [product_id |-> 1, option_name |-> "Size", option_value |-> "Small"],
       [product_id |-> 1, option_name |-> "Size", option_value |-> "Medium"],
       [product_id |-> 1, option_name |-> "Size", option_value |-> "Large"],
       [product_id |-> 2, option_name |-> "Syrup", option_value |-> "Vanilla"],
       [product_id |-> 2, option_name |-> "Syrup", option_value |-> "Caramel"],
       [product_id |-> 2, option_name |-> "Syrup", option_value |-> "Hazelnut"] >>

\* The customers rows of the seeding by their UNIQUE column, in id order.
SeededCustomers ==
    << [email |-> "john@email.com"], [email |-> "jane@email.com"],
       [email |-> "bob@email.com"], [email |-> "alice@email.com"] >>

\* The users rows of the seeding by their UNIQUE column, in id order.
SeededUsers ==
    << [username |-> "admin"], [username |-> "cashier1"],
       [username |-> "manager1"] >>

(* ------------------------------- state -------------------------------- *)

VARIABLES
    now,            \* seconds of wall-clock time elapsed today
    products,       \* products table: price by id
    orders,         \* orders table, committed rows in id order
    order_items,    \* order_items table, committed rows in id order
    lock,           \* connections holding the file's write lock
    pc,             \* where each connection stands in create_order
    args,           \* the arguments of each connection's call
    loc,            \* create_order's locals
    pend_order,     \* the transaction's uncommitted orders row
    pend_items,     \* the transaction's uncommitted order_items rows
    result,         \* what create_order returned or raised
    current_order,  \* the cart of the till
    order_number,   \* the order counter the till shows
    last,           \* history: the till handler that ran last, and its cart
    inventory,      \* inventory table: stock levels by product id
    low_stock,      \* what the last get_low_stock_items call returned
    seed,           \* the run of _generate_dummy_orders under way
    catalog,        \* products table: name, category, is_available by id
    product_options,\* product_options table, rows in id order
    customers,      \* customers table, rows in id order
    users,          \* users table, rows in id order
    answer,         \* what the last read operation returned
    boot            \* the constructor call under way and its transaction

dbvars == << products, orders, order_items >>

connvars == << lock, pc, args, loc, pend_order, pend_items, result >>

tillvars == << current_order, order_number, last >>

stockvars == << inventory, low_stock >>

catvars == << catalog, product_options, customers, users >>

auxvars == << answer, boot >>

vars == << now, products, orders, order_items, lock, pc, args, loc,
           pend_order, pend_items, result, current_order, order_number, last,
           inventory, low_stock, seed, catalog, product_options, customers,
           users, answer, boot >>

NoArgs == [customer_id |-> NoCustomer, items |-> << >>]

NoLocals == [order_number |-> << >>, subtotal |-> 0, tax |-> 0, total |-> 0,
             order_id |-> 0, i |-> 0]

NoResult == [status |-> "none", id |-> 0, err |-> ""]

\* No till handler has run yet.
NoHandler == [op |-> "none", product |-> 0, before |-> << >>]

\* The seeding transaction is over: the constructor has returned.
SeedingOver ==
    [pc |-> "done", day |-> 0, order_num |-> 0, daily_orders |-> 0,
     num_items |-> 0, written |-> << >>, order |-> << >>, items |-> << >>]

\* No read operation has returned yet (err is the exception a read
\* operation raised, "" when it returned).
NoAnswer == [op |-> "none", arg |-> 0, rows |-> << >>, err |-> ""]

\* No constructor call is under way: program is the module whose
\* DatabaseManager opens the store, runs counts the calls made so far and
\* faults those that raised (a history field), and the tables of the
\* seeding transaction are empty.
NoBoot ==
    [program |-> "db_manager", pc |-> "none", runs |-> 0, faults |-> 0,
     products |-> << >>, catalog |-> << >>,
     options |-> << >>, customers |-> << >>, users |-> << >>,
     inventory |-> << >>, orders |-> << >>, items |-> << >>]

\* An inventory table whose rows hold no more than min_stock.
SeededInventoryAtMinStock ==
    [p \in ProductIds |->
        [current_stock |-> SeedMinStock, min_stock |-> SeedMinStock]]

\* The inventory table as the constructor commits it when every draw of
\* random.randint(15, 50) gave the lowest stock: one row per product.
SeededInventory ==
    [p \in ProductIds |->
        [current_stock |-> LowestSeedStock, min_stock |-> SeedMinStock]]

\* The store as the constructor leaves it when every synthesized day drew
\* the fewest orders, and no call under way.
Init ==
    /\ now = 0
    /\ products = SeededProducts
    /\ orders = SeededStore(MinDailyOrders).orders
    /\ order_items = SeededStore(MinDailyOrders).items
    /\ lock = {}
    /\ pc = [c \in Conns |-> "idle"]
    /\ args = [c \in Conns |-> NoArgs]
    /\ loc = [c \in Conns |-> NoLocals]
    /\ pend_order = [c \in Conns |-> << >>]
    /\ pend_items = [c \in Conns |-> << >>]
    /\ result = [c \in Conns |-> NoResult]
    /\ current_order = << >>
    /\ order_number = FirstOrderNumber
    /\ last = NoHandler
    /\ inventory = SeededInventory
    /\ low_stock = << >>
    /\ seed = SeedingOver
    /\ catalog = SeededCatalog
    /\ product_options = SeededOptions
    /\ customers = SeededCustomers
    /\ users = SeededUsers
    /\ answer = NoAnswer
    /\ boot = NoBoot

(* --------------------------- call arguments --------------------------- *)

\* Line items a caller passes: a seeded product at its seeded price, a
\* product whose price was edited to 1.99, a line of quantity zero, and a
\* product id that has no row.
ItemInputs ==
    { [product_id |-> 1, quantity |-> 1, unit_price |-> 25000],
      [product_id |-> 2, quantity |-> 2, unit_price |-> 19900],
      [product_id |-> 1, quantity |-> 0, unit_price |-> 25000],
      [product_id |-> NumProducts + 1, quantity |-> 1, unit_price |-> 25000] }

\* The line-item lists of a call: at most MaxItems items that name pairwise
\* different products, as every list built from a cart does.
ItemLists ==
    { l \in UNION { [1 .. n -> ItemInputs] : n \in 0 .. MaxItems } :
        \A i, j \in 1 .. Len(l) : i # j => l[i].product_id # l[j].product_id }

\* The products whose price is edited after the sales.
EditedProducts == { 1 }

\* The tills pass no customer: every sale is anonymous.
CustomerInputs == { NoCustomer }

(* ------------------------------ storage ------------------------------- *)

\* The orders table without its UNIQUE constraint.
OrderNumberNeverTaken(n) == FALSE

\* order_number TEXT UNIQUE NOT NULL: the INSERT fails when a row holds n.
OrderNumberTaken(n) == \E k \in 1 .. Len(orders) : orders[k].order_number = n

\* id INTEGER PRIMARY KEY AUTOINCREMENT of the next orders row; no row is
\* ever deleted and a rollback restores the sequence.
NextOrderId == Len(orders) + 1

\* The orders row of connection c's INSERT; created_at defaults to
\* CURRENT_TIMESTAMP.
OrderRow(c) ==
    [id |-> NextOrderId, customer_id |-> args[c].customer_id,
     order_number |-> loc[c].order_number,
     subtotal |-> loc[c].subtotal, tax |-> loc[c].tax, total |-> loc[c].total,
     created_day |-> Today, src |-> c]

\* An order_items row that records one unit whatever the quantity.
ItemRowOfOneUnit(c, i) ==
    [id |-> Len(order_items) + Len(pend_items[c]) + 1,
     order_id |-> loc[c].order_id,
     product_id |-> args[c].items[i].product_id,
     quantity |-> 1,
     unit_price |-> args[c].items[i].unit_price, src |-> c]

\* The order_items row of the i-th line item of connection c's call.
ItemRow(c, i) ==
    [id |-> Len(order_items) + Len(pend_items[c]) + 1,
     order_id |-> loc[c].order_id,
     product_id |-> args[c].items[i].product_id,
     quantity |-> args[c].items[i].quantity,
     unit_price |-> args[c].items[i].unit_price, src |-> c]

\* A connection in autocommit mode: the rows written so far stay.
RollbackKeepsRows(c) ==
    /\ orders' = orders \o pend_order[c]
    /\ order_items' = order_items \o pend_items[c]
    /\ pend_order' = [pend_order EXCEPT ![c] = << >>]
    /\ pend_items' = [pend_items EXCEPT ![c] = << >>]
    /\ lock' = lock \ {c}

\* The transaction of connection c is abandoned (the with block's rollback,
\* or the close of a connection that never committed): its rows are
\* dropped and the write lock is released.
Rollback(c) ==
    /\ pend_order' = [pend_order EXCEPT ![c] = << >>]
    /\ pend_items' = [pend_items EXCEPT ![c] = << >>]
    /\ lock' = lock \ {c}
    /\ UNCHANGED << orders, order_items >>

\* create_order raises err: the transaction is rolled back.
Raise(c, err) ==
    /\ Rollback(c)
    /\ result' = [result EXCEPT ![c] = [status |-> "failed", id |-> 0, err |-> err]]
    /\ loc' = [loc EXCEPT ![c] = NoLocals]
    /\ pc' = [pc EXCEPT ![c] = "done"]

(* ---------------------------- create_order ---------------------------- *)

\* The call, up to the order number: totals and the number are computed
\* before anything is written.
BeginCreateOrder(c, cust, items) ==
    LET subtotal == SumLines(items)
        tax == TaxOf(subtotal)
    IN  /\ args' = [args EXCEPT ![c] = [customer_id |-> cust, items |-> items]]
        /\ loc' = [loc EXCEPT ![c] =
                      [order_number |-> FinalizeOrderNumber(Today, now),
                       subtotal |-> subtotal, tax |-> tax,
                       total |-> subtotal + tax, order_id |-> 0, i |-> 1]]
        /\ pc' = [pc EXCEPT ![c] = "insert_order"]

\* create_order is called on a connection of its own with any arguments.
CreateOrder(c) ==
    /\ pc[c] = "idle"
    /\ \E cust \in CustomerInputs, items \in ItemLists :
          BeginCreateOrder(c, cust, items)
    /\ UNCHANGED << now, dbvars, lock, pend_order, pend_items, result,
                    tillvars, stockvars, seed, catvars, auxvars >>

\* A price edit that also rewrites the unit price of the items sold.
UpdatePriceAndItems(p) ==
    /\ products[p] = SeedPrices[p]
    /\ \A c \in Conns : pc[c] = "done"
    /\ products' = [products EXCEPT ![p] = @ + 2500]
    /\ order_items' = [k \in 1 .. Len(order_items) |->
                          IF order_items[k].product_id = p
                          THEN [order_items[k] EXCEPT !.unit_price = @ + 2500]
                          ELSE order_items[k]]
    /\ UNCHANGED << now, orders, connvars, tillvars, stockvars, seed,
                    catvars, auxvars >>

\* The price column of a product's row is edited in the store file (by
\* 0.25, once the calls have returned); no handler of the program writes
\* the products table after seeding.
UpdatePrice(p) ==
    /\ products[p] = SeedPrices[p]
    /\ \A c \in Conns : pc[c] = "done"
    /\ products' = [products EXCEPT ![p] = @ + 2500]
    /\ UNCHANGED << now, orders, order_items, connvars, tillvars, stockvars,
                    seed, catvars, auxvars >>

\* An INSERT INTO orders on a connection in autocommit mode: the row is in
\* the table at once.
InsertOrderAutocommit(c) ==
    /\ pc[c] = "insert_order"
    /\ lock = {}
    /\ IF OrderNumberTaken(loc[c].order_number)
       THEN /\ Raise(c, "IntegrityError")
            /\ UNCHANGED << now, products, args, tillvars, stockvars, seed,
                            catvars, auxvars >>
       ELSE /\ lock' = {c}
            /\ orders' = Append(orders, OrderRow(c))
            /\ loc' = [loc EXCEPT ![c].order_id = NextOrderId]
            /\ pc' = [pc EXCEPT ![c] =
                        IF args[c].items = << >> THEN "commit" ELSE "insert_items"]
            /\ UNCHANGED << now, products, order_items, args, pend_order,
                            pend_items, result, tillvars, stockvars, seed,
                            catvars, auxvars >>

\* INSERT INTO orders: takes the write lock; a duplicate order number
\* raises IntegrityError.
InsertOrder(c) ==
    /\ pc[c] = "insert_order"
    /\ lock = {}
    /\ IF OrderNumberTaken(loc[c].order_number)
       THEN /\ Raise(c, "IntegrityError")
            /\ UNCHANGED << now, products, args, tillvars, stockvars, seed,
                            catvars, auxvars >>
       ELSE /\ lock' = {c}
            /\ pend_order' = [pend_order EXCEPT ![c] = << OrderRow(c) >>]
            /\ loc' = [loc EXCEPT ![c].order_id = NextOrderId]
            /\ pc' = [pc EXCEPT ![c] =
                        IF args[c].items = << >> THEN "commit" ELSE "insert_items"]
            /\ UNCHANGED << now, dbvars, args, pend_items, result, tillvars,
                            stockvars, seed, catvars, auxvars >>

\* INSERT INTO orders while another connection holds the write lock: the
\* busy timeout runs out and the call raises OperationalError.
InsertOrderLocked(c) ==
    /\ pc[c] = "insert_order"
    /\ lock # {}
    /\ Raise(c, "OperationalError")
    /\ UNCHANGED << now, products, args, tillvars, stockvars, seed, catvars,
                    auxvars >>

\* INSERT INTO order_items, one line item per step.
InsertItem(c) ==
    /\ pc[c] = "insert_items"
    /\ pend_items' = [pend_items EXCEPT ![c] = Append(@, ItemRow(c, loc[c].i))]
    /\ loc' = [loc EXCEPT ![c].i = @ + 1]
    /\ pc' = [pc EXCEPT ![c] =
                IF loc[c].i = Len(args[c].items) THEN "commit" ELSE "insert_items"]
    /\ UNCHANGED << now, dbvars, lock, args, pend_order, result, tillvars,
                    stockvars, seed, catvars, auxvars >>

\* A commit that also takes a unit off the stock for every line sold.
CommitAndSell(c) ==
    /\ pc[c] = "commit"
    /\ orders' = orders \o pend_order[c]
    /\ order_items' = order_items \o pend_items[c]
    /\ inventory' = [p \in DOMAIN inventory |->
                       [inventory[p] EXCEPT !.current_stock =
                           @ - Len(SelectSeq(pend_items[c],
                                       LAMBDA r : r.product_id = p))]]
    /\ pend_order' = [pend_order EXCEPT ![c] = << >>]
    /\ pend_items' = [pend_items EXCEPT ![c] = << >>]
    /\ lock' = lock \ {c}
    /\ result' = [result EXCEPT ![c] =
                    [status |-> "ok", id |-> loc[c].order_id, err |-> ""]]
    /\ loc' = [loc EXCEPT ![c] = NoLocals]
    /\ pc' = [pc EXCEPT ![c] = "done"]
    /\ UNCHANGED << now, products, args, tillvars, low_stock, seed, catvars,
                    auxvars >>

\* conn.commit(); return order_id
Commit(c) ==
    /\ pc[c] = "commit"
    /\ orders' = orders \o pend_order[c]
    /\ order_items' = order_items \o pend_items[c]
    /\ pend_order' = [pend_order EXCEPT ![c] = << >>]
    /\ pend_items' = [pend_items EXCEPT ![c] = << >>]
    /\ lock' = lock \ {c}
    /\ result' = [result EXCEPT ![c] =
                    [status |-> "ok", id |-> loc[c].order_id, err |-> ""]]
    /\ loc' = [loc EXCEPT ![c] = NoLocals]
    /\ pc' = [pc EXCEPT ![c] = "done"]
    /\ UNCHANGED << now, products, args, tillvars, stockvars, seed, catvars,
                    auxvars >>

\* A statement or the commit fails after the orders row was written (a
\* storage fault, or a line item the INSERT cannot bind).
Fault(c) ==
    /\ pc[c] \in { "insert_items", "commit" }
    /\ Raise(c, "StorageFault")
    /\ UNCHANGED << now, products, args, tillvars, stockvars, seed, catvars,
                    auxvars >>

\* A second of wall-clock time passes.
Tick ==
    /\ now < MaxClock
    /\ now' = now + 1
    /\ UNCHANGED << dbvars, connvars, tillvars, stockvars, seed, catvars,
                    auxvars >>

(* -------------------------------- cart -------------------------------- *)

\* Position of the first line of cart that holds product p, 0 when none.
LineOf(cart, p) ==
    IF \E i \in 1 .. Len(cart) : cart[i].product = p
    THEN CHOOSE i \in 1 .. Len(cart) :
            /\ cart[i].product = p
            /\ \A j \in 1 .. i - 1 : cart[j].product # p
    ELSE 0

\* An add that never looks for the product's line.
AddLineAlwaysAppends(cart, p) ==
    Append(cart, [product |-> p, quantity |-> 1, customizations |-> << >>])

\* An add that moves the bumped line to the end of the cart.
AddLineMovesToEnd(cart, p) ==
    IF LineOf(cart, p) # 0
    THEN Append(SelectSeq(cart, LAMBDA line : line.product # p),
                [cart[LineOf(cart, p)] EXCEPT !.quantity = @ + 1])
    ELSE Append(cart, [product |-> p, quantity |-> 1, customizations |-> << >>])

\* _add_to_order: the for loop bumps the first line of the product and
\* breaks; its else branch appends a new line.
AddLine(cart, p) ==
    IF LineOf(cart, p) # 0
    THEN [cart EXCEPT ![LineOf(cart, p)].quantity = @ + 1]
    ELSE Append(cart, [product |-> p, quantity |-> 1, customizations |-> << >>])

\* A remove that takes one unit off the line and keeps the line at zero.
RemoveLineKeepsLine(cart, p) ==
    IF LineOf(cart, p) # 0 /\ cart[LineOf(cart, p)].quantity > 0
    THEN [cart EXCEPT ![LineOf(cart, p)].quantity = @ - 1]
    ELSE cart

\* A remove that takes one unit off the line and drops it only at zero.
RemoveLineByUnit(cart, p) ==
    IF LineOf(cart, p) # 0 /\ cart[LineOf(cart, p)].quantity > 1
    THEN [cart EXCEPT ![LineOf(cart, p)].quantity = @ - 1]
    ELSE SelectSeq(cart, LAMBDA line : line.product # p)

\* remove_from_order: the lines of every other product, in their order.
RemoveLine(cart, p) == SelectSeq(cart, LAMBDA line : line.product # p)

\* A product button of the grid is pressed (the handlers of a till run one
\* at a time, so none starts while a charge is under way).
AddToOrder(p) ==
    /\ pc[TillConn] = "idle"
    /\ \A i \in 1 .. Len(current_order) :
          current_order[i].product = p => current_order[i].quantity < MaxCartQty
    /\ current_order' = AddLine(current_order, p)
    /\ last' = [op |-> "add", product |-> p, before |-> current_order]
    /\ UNCHANGED << now, dbvars, connvars, order_number, stockvars, seed,
                    catvars, auxvars >>

\* The remove button of a cart line is pressed.
RemoveFromOrder(p) ==
    /\ pc[TillConn] = "idle"
    /\ LineOf(current_order, p) # 0
    /\ current_order' = RemoveLine(current_order, p)
    /\ last' = [op |-> "remove", product |-> p, before |-> current_order]
    /\ UNCHANGED << now, dbvars, connvars, order_number, stockvars, seed,
                    catvars, auxvars >>

\* clear_order
ClearOrder ==
    /\ pc[TillConn] = "idle"
    /\ current_order # << >>
    /\ current_order' = << >>
    /\ last' = [op |-> "clear", product |-> 0, before |-> current_order]
    /\ UNCHANGED << now, dbvars, connvars, order_number, stockvars, seed,
                    catvars, auxvars >>


(* ------------------------------- charge ------------------------------- *)

\* The list process_payment builds from the cart: one item per line, with
\* the product's price as unit price.
OrderItemsOf(cart, prices) ==
    [i \in 1 .. Len(cart) |->
        [product_id |-> cart[i].product, quantity |-> cart[i].quantity,
         unit_price |-> prices[cart[i].product]]]

\* process_payment of main.py, up to its call of create_order; an empty
\* cart returns at once.
ProcessPayment ==
    /\ pc[TillConn] = "idle"
    /\ current_order # << >>
    /\ BeginCreateOrder(TillConn, NoCustomer, OrderItemsOf(current_order, products))
    /\ last' = [op |-> "charge", product |-> 0, before |-> current_order]
    /\ UNCHANGED << now, dbvars, lock, pend_order, pend_items, result,
                    current_order, order_number, stockvars, seed, catvars,
                    auxvars >>

\* create_order returned the order id: clear_order() and order_number += 1.
PaymentProcessed ==
    /\ pc[TillConn] = "done"
    /\ last.op = "charge"
    /\ result[TillConn].status = "ok"
    /\ current_order' = << >>
    /\ order_number' = order_number + 1
    /\ pc' = [pc EXCEPT ![TillConn] = "returned"]
    /\ UNCHANGED << now, dbvars, lock, args, loc, pend_order, pend_items,
                    result, last, stockvars, seed, catvars, auxvars >>

\* A handler that catches the exception and goes on to clear_order() and
\* order_number += 1.
PaymentFailedClears ==
    /\ pc[TillConn] = "done"
    /\ last.op = "charge"
    /\ result[TillConn].status = "failed"
    /\ current_order' = << >>
    /\ order_number' = order_number + 1
    /\ pc' = [pc EXCEPT ![TillConn] = "returned"]
    /\ UNCHANGED << now, dbvars, lock, args, loc, pend_order, pend_items,
                    result, last, stockvars, seed, catvars, auxvars >>

\* create_order raised: the exception leaves process_payment before the
\* cart is cleared.
PaymentFailed ==
    /\ pc[TillConn] = "done"
    /\ last.op = "charge"
    /\ result[TillConn].status = "failed"
    /\ pc' = [pc EXCEPT ![TillConn] = "returned"]
    /\ UNCHANGED << now, dbvars, lock, args, loc, pend_order, pend_items,
                    result, tillvars, stockvars, seed, catvars, auxvars >>

\* _process_payment of NewOrderTab (and process_payment of simple_pos.py,
\* which keeps no counter): the cart is cleared after a log line; nothing
\* is sent to the store.
TabProcessPayment ==
    /\ pc[TillConn] = "idle"
    /\ current_order # << >>
    /\ order_number < FirstOrderNumber + MaxCharges
    /\ current_order' = << >>
    /\ order_number' = order_number + 1
    /\ last' = [op |-> "charge", product |-> 0, before |-> current_order]
    /\ UNCHANGED << now, dbvars, connvars, stockvars, seed, catvars,
                    auxvars >>

(* ------------------------------- totals ------------------------------- *)

RECURSIVE OrderSubtotalOfPrices(_, _)
\* A subtotal that counts every line once, whatever its quantity.
OrderSubtotalOfPrices(cart, prices) ==
    IF cart = << >> THEN 0
    ELSE prices[Head(cart).product] + OrderSubtotalOfPrices(Tail(cart), prices)

RECURSIVE OrderSubtotal(_, _)
\* sum(item['product']['price'] * item['quantity'] for item in current_order)
OrderSubtotal(cart, prices) ==
    IF cart = << >> THEN 0
    ELSE prices[Head(cart).product] * Head(cart).quantity
         + OrderSubtotal(Tail(cart), prices)

\* update_order_display: the three amounts as computed, before formatting.
OrderTotals(cart, prices) ==
    LET subtotal == OrderSubtotal(cart, prices)
        tax == TaxOf(subtotal)
    IN  [subtotal |-> subtotal, tax |-> tax, total |-> subtotal + tax]

\* f"${x:.2f}": the amount to two decimals, to the nearest cent and to the
\* even cent at a tie.
FormatCents(x) ==
    LET q == x \div 100
        r == x % 100
    IN  IF r > 50 \/ (r = 50 /\ q % 2 = 1) THEN (q + 1) * 100 ELSE q * 100

\* The texts of subtotal_label, tax_label and total_label, as amounts.
OrderLabels(cart, prices) ==
    LET t == OrderTotals(cart, prices)
    IN  [subtotal |-> FormatCents(t.subtotal), tax |-> FormatCents(t.tax),
         total |-> FormatCents(t.total)]

(* ------------------------------ reporting ----------------------------- *)

\* SQL NULL, Python None: what SUM and AVG give over no rows.  No amount
\* of the store is negative.
Null == -1

\* Without the "or 0": the NULL of an aggregate over no rows is returned.
OrNull(x) == x

\* row[n] or 0
OrZero(x) == IF x = Null \/ x = 0 THEN 0 ELSE x

RECURSIVE SqlSum(_, _)
\* SUM(column) over rows that are not empty.
SqlSum(rows, column) ==
    IF rows = << >> THEN 0
    ELSE Head(rows)[column] + SqlSum(Tail(rows), column)

\* The aggregate without its WHERE clause: the orders of every day.
GetDailySalesOfAllDays(date) ==
    [order_count     |-> OrZero(Len(orders)),
     total_sales     |-> OrZero(IF orders = << >> THEN Null
                                ELSE SqlSum(orders, "total")),
     total_tax       |-> OrZero(IF orders = << >> THEN Null
                                ELSE SqlSum(orders, "tax")),
     avg_order_value |-> OrZero(IF orders = << >> THEN Null
                                ELSE SqlSum(orders, "total") \div Len(orders))]

\* get_daily_sales: COUNT(*), SUM(total), SUM(tax) and AVG(total) over the
\* orders WHERE DATE(created_at) = date, each "or 0".  AVG is the quotient
\* in whole mils.
GetDailySales(date) ==
    LET rows == SelectSeq(orders, LAMBDA r : r.created_day = date)
    IN  [order_count     |-> OrZero(Len(rows)),
         total_sales     |-> OrZero(IF rows = << >> THEN Null
                                    ELSE SqlSum(rows, "total")),
         total_tax       |-> OrZero(IF rows = << >> THEN Null
                                    ELSE SqlSum(rows, "tax")),
         avg_order_value |-> OrZero(IF rows = << >> THEN Null
                                    ELSE SqlSum(rows, "total") \div Len(rows))]

\* The dates asked for: the synthesized days, today and tomorrow.
ReportDates == 0 .. Today + 1

(* ------------------------------ inventory ----------------------------- *)

\* The stock levels a product is given: around min_stock.
StockLevels == SeedMinStock - StockSpread .. SeedMinStock + StockSpread

\* A store whose inventory rows hold any of the stock levels, one row per
\* product as seeded; the rest as constructed.
InitStock ==
    /\ now = 0
    /\ products = SeededProducts
    /\ orders = SeededStore(MinDailyOrders).orders
    /\ order_items = SeededStore(MinDailyOrders).items
    /\ lock = {}
    /\ pc = [c \in Conns |-> "idle"]
    /\ args = [c \in Conns |-> NoArgs]
    /\ loc = [c \in Conns |-> NoLocals]
    /\ pend_order = [c \in Conns |-> << >>]
    /\ pend_items = [c \in Conns |-> << >>]
    /\ result = [c \in Conns |-> NoResult]
    /\ current_order = << >>
    /\ order_number = FirstOrderNumber
    /\ last = NoHandler
    /\ inventory \in [ProductIds ->
                        { [current_stock |-> s, min_stock |-> SeedMinStock] :
                            s \in StockLevels }]
    /\ low_stock = << >>
    /\ seed = SeedingOver
    /\ catalog = SeededCatalog
    /\ product_options = SeededOptions
    /\ customers = SeededCustomers
    /\ users = SeededUsers
    /\ answer = NoAnswer
    /\ boot = NoBoot

\* WHERE with a strict comparison: a product at its minimum is left out.
IsBelowMinStock(row) == row.current_stock < row.min_stock

\* WHERE i.current_stock <= i.min_stock
IsLowStock(row) == row.current_stock <= row.min_stock

\* The joined rows that pass the WHERE clause, as the SELECT lists them.
LowStockRows ==
    { [name |-> SeedNames[p], current_stock |-> inventory[p].current_stock,
       min_stock |-> inventory[p].min_stock] :
        p \in { q \in DOMAIN products \cap DOMAIN inventory :
                    IsLowStock(inventory[q]) } }

\* ORDER BY i.current_stock: the rows in any order that ascends by
\* current_stock (SQL leaves the order of equal keys open).
OrderedByStock(rows) ==
    { s \in [1 .. Cardinality(rows) -> rows] :
        /\ \A i, j \in DOMAIN s : i # j => s[i] # s[j]
        /\ \A i, j \in DOMAIN s : i < j => s[i].current_stock <= s[j].current_stock }

\* get_low_stock_items
GetLowStockItems ==
    /\ low_stock' \in OrderedByStock(LowStockRows)
    /\ UNCHANGED << now, dbvars, connvars, tillvars, inventory, seed,
                    catvars, auxvars >>

(* ----------------------------- synthesizer ---------------------------- *)

\* The catalogs _generate_dummy_orders reads: the first n seeded products,
\* from none to all that are modelled.
Catalogs == { [p \in 1 .. n |-> SeedPrices[p]] : n \in 0 .. NumProducts }

\* daily_orders = random.randint(5, 15): the draws followed are the fewest
\* and the most.
DailyOrderDraws == { MinDailyOrders, MaxDailyOrders }

\* k products drawn with repetition.
SampleDrawsWithRepeats(k) == [1 .. k -> DOMAIN products]

\* random.sample(products, k): k different products in any order.
SampleDraws(k) ==
    { s \in [1 .. k -> DOMAIN products] :
        \A i, j \in 1 .. k : i # j => s[i] # s[j] }

\* random.randint(1, 3) for each of k sampled products.
QuantityDraws(k) == [1 .. k -> 1 .. MaxQuantity]

\* random.choice(customers) if random.random() < 0.7 else None, where
\* customers holds the ids of the customers table (which the seeding has
\* filled before the synthesizer runs): the draws followed are None and
\* the last customer.
CustomerDraws == { NoCustomer, Len(customers) }

\* The store at the entry of _generate_dummy_orders: the seeding
\* transaction has written a catalog and no order yet.  The cursor's
\* orders rows are kept by order number and day (seed.written), the order
\* of the pass under way in full (seed.order, seed.items, and the item
\* count drawn for it).
InitSeed ==
    /\ now = 0
    /\ products \in Catalogs
    /\ orders = << >>
    /\ order_items = << >>
    /\ lock = {}
    /\ pc = [c \in Conns |-> "idle"]
    /\ args = [c \in Conns |-> NoArgs]
    /\ loc = [c \in Conns |-> NoLocals]
    /\ pend_order = [c \in Conns |-> << >>]
    /\ pend_items = [c \in Conns |-> << >>]
    /\ result = [c \in Conns |-> NoResult]
    /\ current_order = << >>
    /\ order_number = FirstOrderNumber
    /\ last = NoHandler
    /\ inventory = [p \in DOMAIN products |->
                      [current_stock |-> LowestSeedStock, min_stock |-> SeedMinStock]]
    /\ low_stock = << >>
    /\ seed = [SeedingOver EXCEPT !.pc = "day"]
    /\ catalog = [p \in DOMAIN products |-> SeededCatalog[p]]
    /\ product_options = SeededOptions
    /\ customers = SeededCustomers
    /\ users = SeededUsers
    /\ answer = NoAnswer
    /\ boot = NoBoot

\* for day in range(30): the next day starts with its draw of
\* daily_orders; after the last day the method returns.
SynthDay ==
    /\ seed.pc = "day"
    /\ IF seed.day < SynthDays
       THEN \E n \in DailyOrderDraws :
               seed' = [seed EXCEPT !.pc = "order", !.order_num = 0,
                                    !.daily_orders = n]
       ELSE seed' = [seed EXCEPT !.pc = "returned"]
    /\ UNCHANGED << now, dbvars, connvars, tillvars, stockvars, catvars,
                    auxvars >>

\* The body of for order_num in range(daily_orders): the draws, the
\* totals, the INSERT of the order and of its items.
SynthOrder ==
    /\ seed.pc = "order"
    /\ seed.order_num < seed.daily_orders
    /\ \E num_items \in 1 .. MaxNumItems :
          LET k == IF num_items < Cardinality(DOMAIN products)
                   THEN num_items ELSE Cardinality(DOMAIN products)
          IN  \E customer \in CustomerDraws, sample \in SampleDraws(k),
                 qty \in QuantityDraws(k) :
                 LET o == DummyOrder(Len(seed.written) + 1, seed.day,
                                     seed.order_num,
                                     [customer |-> customer,
                                      sample |-> sample, qty |-> qty],
                                     products)
                 IN  seed' = [seed EXCEPT
                                !.num_items = num_items,
                                !.order = << o.order >>,
                                !.items = o.lines,
                                !.written = Append(@,
                                    [order_number |-> o.order.order_number,
                                     created_day |-> o.order.created_day]),
                                !.pc = "next"]
    /\ UNCHANGED << now, dbvars, connvars, tillvars, stockvars, catvars,
                    auxvars >>

\* The loop takes its next order_num; the order of the pass that ended is
\* kept by number and day only.
SynthNextOrder ==
    /\ seed.pc = "next"
    /\ seed' = [seed EXCEPT !.pc = "order", !.order_num = @ + 1,
                            !.num_items = 0, !.order = << >>, !.items = << >>]
    /\ UNCHANGED << now, dbvars, connvars, tillvars, stockvars, catvars,
                    auxvars >>

\* The inner loop is exhausted: on to the next day.
SynthDayDone ==
    /\ seed.pc = "order"
    /\ seed.order_num = seed.daily_orders
    /\ seed' = [seed EXCEPT !.pc = "day", !.day = @ + 1]
    /\ UNCHANGED << now, dbvars, connvars, tillvars, stockvars, catvars,
                    auxvars >>

(* ------------------------------- catalog ------------------------------ *)

\* ORDER BY compares TEXT byte by byte (the BINARY collation): the texts
\* of the model in that order.
TextOrder ==
    << "All", "Almond Milk", "Americano", "Blueberry Muffin",
       "Bottled Water", "Cappuccino", "Caramel", "Chai Latte", "Chamomile",
       "Chocolate Chip Cookie", "Coffee", "Croissant", "Danish",
       "Earl Grey", "Espresso", "Granola Bar", "Green Tea", "Hazelnut",
       "Large", "Latte", "Macchiato", "Medium", "Milk Type", "Mocha",
       "Oat Milk", "Orange Juice", "Other", "Pastries", "Size", "Small",
       "Soy Milk", "Syrup", "Tea", "Vanilla", "Whole Milk" >>

\* The place of each text in that order.
TextRanks ==
    [t \in { TextOrder[i] : i \in DOMAIN TextOrder } |->
        CHOOSE i \in DOMAIN TextOrder : TextOrder[i] = t]

TextRank(t) == TextRanks[t]

\* Sort keys a and b (tuples of ranks of one length): a sorts strictly
\* before b.
KeyBefore(a, b) ==
    \E i \in DOMAIN a :
        /\ a[i] < b[i]
        /\ \A j \in 1 .. i - 1 : a[j] = b[j]

\* The rows of ids that ORDER BY may put first: no row has a smaller key
\* (key is the sort key of each row).
FirstBy(ids, key) ==
    { m \in ids : \A x \in ids : ~ KeyBefore(key[x], key[m]) }

RECURSIVE OrderedBy(_, _)
\* ORDER BY over the rows ids: each row once, no row before a row of a
\* smaller key; rows of equal keys come in an order SQLite does not fix.
OrderedBy(ids, key) ==
    IF ids = {} THEN { << >> }
    ELSE UNION { { << m >> \o s : s \in OrderedBy(ids \ { m }, key) } :
                 m \in FirstBy(ids, key) }

\* ORDER BY name
NameKey == [p \in DOMAIN catalog |-> << TextRank(catalog[p].name) >>]

\* ORDER BY category, name
CategoryNameKey ==
    [p \in DOMAIN catalog |->
        << TextRank(catalog[p].category), TextRank(catalog[p].name) >>]

\* WHERE category = ?  (the availability flag left unread)
ProductsOfCategory(category) ==
    { p \in DOMAIN catalog : catalog[p].category = category }

\* WHERE category = ? AND is_available = 1
AvailableOfCategory(category) ==
    { p \in DOMAIN catalog :
        catalog[p].category = category /\ catalog[p].is_available }

\* WHERE is_available = 1
AvailableProducts == { p \in DOMAIN catalog : catalog[p].is_available }

\* The catalogs the queries are put to: every product has one of two
\* names and one of two categories and is available or not.
NameInputs == { "Latte", "Espresso" }

StoredCategories == { "Coffee", "Tea" }

CatalogInputs ==
    [ProductIds -> [name : NameInputs, category : StoredCategories,
                    is_available : BOOLEAN]]

\* The categories asked for: two that products have, one that no product
\* has, and the "All" tab of the tills.
CategoryInputs == StoredCategories \cup { "Other", "All" }

\* The product ids asked for: those of the catalog, and one past the last.
ProductIdInputs == 1 .. NumProducts + 1

InitCatalog ==
    /\ now = 0
    /\ products = SeededProducts
    /\ orders = << >>
    /\ order_items = << >>
    /\ lock = {}
    /\ pc = [c \in Conns |-> "idle"]
    /\ args = [c \in Conns |-> NoArgs]
    /\ loc = [c \in Conns |-> NoLocals]
    /\ pend_order = [c \in Conns |-> << >>]
    /\ pend_items = [c \in Conns |-> << >>]
    /\ result = [c \in Conns |-> NoResult]
    /\ current_order = << >>
    /\ order_number = FirstOrderNumber
    /\ last = NoHandler
    /\ inventory = SeededInventory
    /\ low_stock = << >>
    /\ seed = SeedingOver
    /\ catalog \in CatalogInputs
    /\ product_options = SeededOptions
    /\ customers = SeededCustomers
    /\ users = SeededUsers
    /\ answer = NoAnswer
    /\ boot = NoBoot

\* DatabaseManager.get_products_by_category of db_manager.py: one SELECT
\* for every argument.
GetProductsByCategory(category) ==
    /\ \E rows \in OrderedBy(AvailableOfCategory(category), NameKey) :
          answer' = [op |-> "get_products_by_category", arg |-> category,
                     rows |-> rows, err |-> ""]
    /\ UNCHANGED << now, dbvars, connvars, tillvars, stockvars, seed,
                    catvars, boot >>

\* DatabaseManager.get_products_by_category of main.py: the argument "All"
\* has a SELECT of its own.
MainGetProductsByCategory(category) ==
    /\ \E rows \in IF category = "All"
                   THEN OrderedBy(AvailableProducts, CategoryNameKey)
                   ELSE OrderedBy(AvailableOfCategory(category), NameKey) :
          answer' = [op |-> "main.get_products_by_category",
                     arg |-> category, rows |-> rows, err |-> ""]
    /\ UNCHANGED << now, dbvars, connvars, tillvars, stockvars, seed,
                    catvars, boot >>

\* WHERE product_id = ?: the rows of product_options, by their place in
\* the table.
OptionsOf(product_id) ==
    { k \in DOMAIN product_options :
        product_options[k].product_id = product_id }

\* ORDER BY option_name, option_value
OptionKey ==
    [k \in DOMAIN product_options |->
        << TextRank(product_options[k].option_name),
           TextRank(product_options[k].option_value) >>]

\* DatabaseManager.get_product_options: the SELECT reads product_options
\* alone, and its rows are returned as a list.
GetProductOptions(product_id) ==
    /\ \E rows \in OrderedBy(OptionsOf(product_id), OptionKey) :
          answer' = [op |-> "get_product_options", arg |-> product_id,
                     rows |-> rows, err |-> ""]
    /\ UNCHANGED << now, dbvars, connvars, tillvars, stockvars, seed,
                    catvars, boot >>

(* ----------------------------- constructor ---------------------------- *)

\* The modules whose DatabaseManager may own the store.
Programs == { "db_manager", "main" }

\* stock = random.randint(15, 50): the draws followed are the lowest and
\* the highest.
SeedStockDraws == { LowestSeedStock, HighestSeedStock }

\* A store whose tables are created and empty, and no constructor called.
InitConstruct ==
    /\ now = 0
    /\ products = << >>
    /\ orders = << >>
    /\ order_items = << >>
    /\ lock = {}
    /\ pc = [c \in Conns |-> "idle"]
    /\ args = [c \in Conns |-> NoArgs]
    /\ loc = [c \in Conns |-> NoLocals]
    /\ pend_order = [c \in Conns |-> << >>]
    /\ pend_items = [c \in Conns |-> << >>]
    /\ result = [c \in Conns |-> NoResult]
    /\ current_order = << >>
    /\ order_number = FirstOrderNumber
    /\ last = NoHandler
    /\ inventory = << >>
    /\ low_stock = << >>
    /\ seed = SeedingOver
    /\ catalog = << >>
    /\ product_options = << >>
    /\ customers = << >>
    /\ users = << >>
    /\ answer = NoAnswer
    /\ boot \in { [NoBoot EXCEPT !.program = m] : m \in Programs }

\* What the constructor's steps leave alone besides the tables.
bootframe == << now, connvars, tillvars, low_stock, seed, answer >>

tables == << products, catalog, product_options, customers, users,
             inventory, orders, order_items >>

\* DatabaseManager(...): __init__ runs _init_database, whose CREATE TABLE
\* IF NOT EXISTS statements change no row, and comes to the SELECT
\* COUNT(*) FROM products.
Construct ==
    /\ boot.pc = "none"
    /\ boot.runs < MaxConstructions
    /\ boot' = [boot EXCEPT !.pc = "check", !.runs = @ + 1]
    /\ UNCHANGED << tables, bootframe >>

\* cursor.fetchone()[0] > 0: the products table has a row.
StoreIsSeededNever == FALSE

StoreIsSeeded == Len(products) > 0

\* if cursor.fetchone()[0] > 0: return (db_manager.py); if ... == 0:
\* self._populate_dummy_data(cursor) (main.py).  A seeded store sends the
\* constructor to its end with an empty transaction.
CheckSeeded ==
    /\ boot.pc = "check"
    /\ boot' = [boot EXCEPT !.pc = IF StoreIsSeeded THEN "none" ELSE "products"]
    /\ UNCHANGED << tables, bootframe >>

\* for product in all_products: INSERT INTO products (db_manager.py);
\* cursor.executemany(INSERT INTO products ...) (main.py, which seeds no
\* other table).
SeedProducts ==
    /\ boot.pc = "products"
    /\ boot' = [boot EXCEPT !.products = SeededProducts,
                            !.catalog = SeededCatalog,
                            !.pc = IF boot.program = "main" THEN "commit"
                                   ELSE "options"]
    /\ UNCHANGED << tables, bootframe >>

\* for option in product_options: INSERT INTO product_options
SeedOptions ==
    /\ boot.pc = "options"
    /\ boot' = [boot EXCEPT !.options = SeededOptions, !.pc = "customers"]
    /\ UNCHANGED << tables, bootframe >>

\* for customer in customers: INSERT INTO customers
SeedCustomers ==
    /\ boot.pc = "customers"
    /\ boot' = [boot EXCEPT !.customers = SeededCustomers, !.pc = "users"]
    /\ UNCHANGED << tables, bootframe >>

\* for user in users: INSERT INTO users
SeedUsers ==
    /\ boot.pc = "users"
    /\ boot' = [boot EXCEPT !.users = SeededUsers, !.pc = "inventory"]
    /\ UNCHANGED << tables, bootframe >>

\* SELECT id FROM products, read inside the transaction: the ids of the
\* rows it has inserted (SeedProductIdsButLast misses the last of them).
SeedProductIdsButLast == DOMAIN boot.products \ { Len(boot.products) }

SeedProductIds == DOMAIN boot.products

\* for product_id in product_ids: INSERT INTO inventory with a drawn
\* stock, min_stock 10.
SeedInventory ==
    /\ boot.pc = "inventory"
    /\ \E stock \in [SeedProductIds -> SeedStockDraws] :
          boot' = [boot EXCEPT
                     !.inventory = [p \in SeedProductIds |->
                                      [current_stock |-> stock[p],
                                       min_stock |-> SeedMinStock]],
                     !.pc = "orders"]
    /\ UNCHANGED << tables, bootframe >>

\* self._generate_dummy_orders(cursor): the orders of a run in which every
\* day drew n orders.
SeedOrders ==
    /\ boot.pc = "orders"
    /\ \E n \in DailyOrderDraws :
          LET store == GenerateDummyOrders([orders |-> << >>, items |-> << >>],
                                           0, SeedPlan(n), boot.products)
          IN  boot' = [boot EXCEPT !.orders = store.orders,
                                   !.items = store.items, !.pc = "commit"]
    /\ UNCHANGED << tables, bootframe >>

\* conn.commit(): the rows of the transaction reach the tables together,
\* and the constructor returns.
CommitSeed ==
    /\ boot.pc = "commit"
    /\ products' = products \o boot.products
    /\ catalog' = catalog \o boot.catalog
    /\ product_options' = product_options \o boot.options
    /\ customers' = customers \o boot.customers
    /\ users' = users \o boot.users
    /\ inventory' = inventory \o boot.inventory
    /\ orders' = orders \o boot.orders
    /\ order_items' = order_items \o boot.items
    /\ boot' = [NoBoot EXCEPT !.program = boot.program, !.runs = boot.runs,
                              !.faults = boot.faults]
    /\ UNCHANGED bootframe

\* A statement of the seeding raises (the disk is full, the file is
\* locked): the with block rolls the transaction back (db_manager.py), or
\* the connection is dropped without a commit (main.py), and the
\* constructor raises.
SeedFault ==
    /\ boot.pc \in { "products", "options", "customers", "users",
                     "inventory", "orders", "commit" }
    /\ boot' = [NoBoot EXCEPT !.program = boot.program, !.runs = boot.runs,
                              !.faults = boot.faults + 1]
    /\ UNCHANGED << tables, bootframe >>

(* ------------------------------- reports ------------------------------ *)

\* DatabaseManager.get_daily_sales called for a date.
DailySalesQuery(date) ==
    /\ answer' = [op |-> "get_daily_sales", arg |-> date,
                  rows |-> << GetDailySales(date) >>, err |-> ""]
    /\ UNCHANGED << now, dbvars, connvars, tillvars, stockvars, seed,
                    catvars, boot >>

\* A step of the create_order call of connection c.
CreateOrderStep(c) ==
    \/ CreateOrder(c)
    \/ InsertOrder(c)
    \/ InsertOrderLocked(c)
    \/ InsertItem(c)
    \/ Commit(c)
    \/ Fault(c)

\* A call of one of the read operations.
ReadStep ==
    \/ \E category \in CategoryInputs : GetProductsByCategory(category)
    \/ \E category \in CategoryInputs : MainGetProductsByCategory(category)
    \/ \E product_id \in ProductIdInputs : GetProductOptions(product_id)
    \/ \E date \in ReportDates : DailySalesQuery(date)
    \/ GetLowStockItems

Next ==
    \/ \E c \in Conns : CreateOrder(c)
    \/ \E c \in Conns : InsertOrder(c)
    \/ \E c \in Conns : InsertOrderLocked(c)
    \/ \E c \in Conns : InsertItem(c)
    \/ \E c \in Conns : Commit(c)
    \/ \E c \in Conns : Fault(c)
    \/ \E p \in EditedProducts : UpdatePrice(p)
    \/ Tick

Spec == Init /\ [][Next]_vars

\* The till's cart alone, over the store as constructed.
NextCart ==
    \/ \E p \in ProductIds : AddToOrder(p)
    \/ \E p \in ProductIds : RemoveFromOrder(p)
    \/ ClearOrder

SpecCart == Init /\ [][NextCart]_vars

\* The till of main.py through one sale: the cart is assembled and charged.
NextTill ==
    \/ \E p \in ProductIds : AddToOrder(p)
    \/ \E p \in ProductIds : RemoveFromOrder(p)
    \/ ClearOrder
    \/ ProcessPayment
    \/ InsertOrder(TillConn)
    \/ InsertItem(TillConn)
    \/ Commit(TillConn)
    \/ Fault(TillConn)
    \/ PaymentProcessed
    \/ PaymentFailed

SpecTill == Init /\ [][NextTill]_vars

\* The till of NewOrderTab: the cart and its charge.
NextTab ==
    \/ \E p \in ProductIds : AddToOrder(p)
    \/ \E p \in ProductIds : RemoveFromOrder(p)
    \/ ClearOrder
    \/ TabProcessPayment

SpecTab == Init /\ [][NextTab]_vars

\* The low-stock report over any inventory.
NextStock == GetLowStockItems

SpecStock == InitStock /\ [][NextStock]_vars

\* One run of _generate_dummy_orders over a catalog.
NextSeed ==
    \/ SynthDay
    \/ SynthOrder
    \/ SynthNextOrder
    \/ SynthDayDone

SpecSeed == InitSeed /\ [][NextSeed]_vars

\* The catalog queries over any catalog.
NextCatalog ==
    \/ \E category \in CategoryInputs : GetProductsByCategory(category)
    \/ \E category \in CategoryInputs : MainGetProductsByCategory(category)
    \/ \E product_id \in ProductIdInputs : GetProductOptions(product_id)

SpecCatalog == InitCatalog /\ [][NextCatalog]_vars

\* Constructor calls, one after the other, on a store that starts empty.
NextConstruct ==
    \/ Construct
    \/ CheckSeeded
    \/ SeedProducts
    \/ SeedOptions
    \/ SeedCustomers
    \/ SeedUsers
    \/ SeedInventory
    \/ SeedOrders
    \/ CommitSeed
    \/ SeedFault

SpecConstruct == InitConstruct /\ [][NextConstruct]_vars

\* One create_order call among the read operations, over the store as
\* constructed.
NextStore ==
    \/ CreateOrder(TillConn)
    \/ InsertOrder(TillConn)
    \/ InsertItem(TillConn)
    \/ Commit(TillConn)
    \/ Fault(TillConn)
    \/ \E category \in CategoryInputs : GetProductsByCategory(category)
    \/ \E category \in CategoryInputs : MainGetProductsByCategory(category)
    \/ \E product_id \in ProductIdInputs : GetProductOptions(product_id)
    \/ \E date \in ReportDates : DailySalesQuery(date)
    \/ GetLowStockItems

SpecStore == Init /\ [][NextStore]_vars

(* ------------------------------ properties ----------------------------- *)

\* Rows of a table written by connection c's transaction.
RowsBy(table, c) == SelectSeq(table, LAMBDA r : r.src = c)

\* Rows of order_items that carry the order id.
ItemsOfOrder(id) == SelectSeq(order_items, LAMBDA r : r.order_id = id)

\* A non-empty list whose items all have a positive quantity and name a
\* product that has a row.
ValidItems(items) ==
    /\ items # << >>
    /\ \A i \in 1 .. Len(items) :
          /\ items[i].quantity > 0
          /\ items[i].product_id \in DOMAIN products

\* round(x, 2) of an amount in mils.
RoundCents(x) == ((x + 50) \div 100) * 100

RECURSIVE LineTotal(_, _)
\* The sum of quantity * unit_price over the first n line items.
LineTotal(items, n) ==
    IF n = 0 THEN 0
    ELSE LineTotal(items, n - 1) + items[n].quantity * items[n].unit_price

\* C1: create_order is atomic.  A call that has not returned an order id
\* (it failed, or it is still under way) has no row in orders and none in
\* order_items; a call that returned one has its orders row and one
\* order_items row for every line item.
C1_FinalizeAtomic ==
    \A c \in Conns :
        IF result[c].status = "ok"
        THEN /\ Len(RowsBy(orders, c)) = 1
             /\ Len(RowsBy(order_items, c)) = Len(args[c].items)
        ELSE /\ RowsBy(orders, c) = << >>
             /\ RowsBy(order_items, c) = << >>

\* A call with two line items failed after its orders row was written.
C1_Witness ==
    \E c \in Conns :
        /\ result[c].err = "StorageFault"
        /\ Len(args[c].items) = 2

\* C2: no two rows of orders hold the same order number, whether the
\* synthesizer or create_order wrote them.
C2_OrderNumbersUnique ==
    \A i, j \in 1 .. Len(orders) :
        i # j => orders[i].order_number # orders[j].order_number

\* Beside the synthesized history, one of two calls made in the same
\* second committed and the other was refused as a duplicate.
C2_Witness ==
    /\ \E k \in 1 .. Len(orders) : orders[k].src = Seeder
    /\ \E c, d \in Conns :
          /\ result[c].status = "ok"
          /\ result[d].err = "IntegrityError"

\* C3: calls with valid, non-empty line items made within the same second
\* get different order numbers: when every call made has such items, none
\* of them is refused as a duplicate.
C3_NoDuplicateRejection ==
    (\A d \in Conns : pc[d] # "idle" => ValidItems(args[d].items)) =>
        \A c \in Conns : result[c].err # "IntegrityError"

\* C4: every orders row has total = subtotal + tax and a tax that is
\* subtotal * 0.08 rounded to whole cents.
C4_TotalsRounded ==
    \A k \in 1 .. Len(orders) :
        /\ orders[k].total = orders[k].subtotal + orders[k].tax
        /\ orders[k].tax = RoundCents((orders[k].subtotal * 8) \div 100)

\* C5: after a successful create_order the orders row with the returned id
\* holds the sum of quantity * unit_price of the submitted line items, the
\* tax and total derived from it, and order_items holds, for that order id,
\* one row per submitted item with its product id, quantity and unit price.
C5_StoredOrderMatchesInput ==
    \A c \in Conns :
        result[c].status = "ok" =>
            LET id == result[c].id
                items == args[c].items
                rows == ItemsOfOrder(id)
            IN  /\ id \in 1 .. Len(orders)
                /\ orders[id].id = id
                /\ orders[id].subtotal = LineTotal(items, Len(items))
                /\ orders[id].tax * 100 = orders[id].subtotal * 8
                /\ orders[id].total = orders[id].subtotal + orders[id].tax
                /\ Len(rows) = Len(items)
                /\ \A i \in 1 .. Len(items) :
                      /\ rows[i].product_id = items[i].product_id
                      /\ rows[i].quantity = items[i].quantity
                      /\ rows[i].unit_price = items[i].unit_price

\* A call with two valid line items, one of quantity 2, has committed.
C5_Witness ==
    \E c \in Conns :
        /\ result[c].status = "ok"
        /\ Len(args[c].items) = 2
        /\ ValidItems(args[c].items)
        /\ \E i \in 1 .. 2 : args[c].items[i].quantity = 2

\* C6: create_order called with an empty line-item list writes nothing.
C6_EmptyListWritesNothing ==
    \A c \in Conns :
        (pc[c] = "done" /\ args[c].items = << >>) =>
            /\ RowsBy(orders, c) = << >>
            /\ RowsBy(order_items, c) = << >>

\* C7: a call with a line item of quantity zero or less is rejected and
\* stores neither an orders row nor an order_items row.
C7_NonPositiveQuantityRejected ==
    \A c \in Conns :
        (pc[c] = "done" /\ \E i \in 1 .. Len(args[c].items) :
                                args[c].items[i].quantity <= 0) =>
            /\ result[c].status = "failed"
            /\ RowsBy(orders, c) = << >>
            /\ RowsBy(order_items, c) = << >>

\* C8: a call naming a product that has no row is rolled back, so every
\* order_items row references a row of orders and a row of products.
C8_ItemsReferenceExistingRows ==
    /\ \A c \in Conns :
          (pc[c] = "done" /\ \E i \in 1 .. Len(args[c].items) :
                                args[c].items[i].product_id \notin DOMAIN products) =>
              /\ result[c].status = "failed"
              /\ RowsBy(orders, c) = << >>
    /\ \A k \in 1 .. Len(order_items) :
          /\ order_items[k].product_id \in DOMAIN products
          /\ \E n \in 1 .. Len(orders) : orders[n].id = order_items[k].order_id

\* C9: the cart holds at most one line per product.
C9_OneLinePerProduct ==
    \A i, j \in 1 .. Len(current_order) :
        i # j => current_order[i].product # current_order[j].product

\* The same product was added twice: one line of quantity 2.
C9_Witness ==
    /\ Len(current_order) = 1
    /\ current_order[1].quantity = 2

\* What add(p) must make of the cart.
AddPost(p) ==
    IF \E i \in 1 .. Len(current_order) : current_order[i].product = p
    THEN /\ Len(current_order') = Len(current_order)
         /\ \A i \in 1 .. Len(current_order) :
               /\ current_order'[i].product = current_order[i].product
               /\ current_order'[i].customizations = current_order[i].customizations
               /\ current_order'[i].quantity =
                     IF current_order[i].product = p
                     THEN current_order[i].quantity + 1
                     ELSE current_order[i].quantity
    ELSE current_order' =
            current_order \o << [product |-> p, quantity |-> 1,
                                 customizations |-> << >>] >>

\* C10: add(p) raises the quantity of the product's line by exactly 1 and
\* leaves every other line and the order of the lines as they were, or,
\* when the cart has no such line, appends a line of quantity 1 with no
\* customizations at the end.
C10_AddEffect == [][\A p \in ProductIds : AddToOrder(p) => AddPost(p)]_vars

\* A product was added again while another line followed its line.
C10_Witness ==
    /\ Len(current_order) = 2
    /\ current_order[1].quantity = 2
    /\ current_order[2].quantity = 1

\* What remove(p) must make of a cart whose k-th line holds p: the lines
\* before and after it, as they were.
RemovePost(p) ==
    \E k \in 1 .. Len(current_order) :
        /\ current_order[k].product = p
        /\ current_order' = SubSeq(current_order, 1, k - 1)
                            \o SubSeq(current_order, k + 1, Len(current_order))
        /\ \A i \in 1 .. Len(current_order') : current_order'[i].product # p

\* C11: remove(p) deletes the whole line of product p whatever its quantity
\* and leaves every other line, its quantity and the order of the lines as
\* they were; afterwards the cart has no line of p.
C11_RemoveEffect ==
    [][\A p \in ProductIds : RemoveFromOrder(p) => RemovePost(p)]_vars

\* The middle line of a three-line cart was removed while it held more
\* than one unit.
C11_Witness ==
    /\ last.op = "remove"
    /\ Len(last.before) = 3
    /\ last.before[2].product = last.product
    /\ last.before[2].quantity >= 2
    /\ Len(current_order) = 2

RECURSIVE CartSum(_, _)
\* The sum of price * quantity over the first n lines of the cart.
CartSum(cart, n) ==
    IF n = 0 THEN 0
    ELSE CartSum(cart, n - 1) + products[cart[n].product] * cart[n].quantity

\* Two Latte (product 2) and one Croissant (product 11).
LatteCroissantCart ==
    << [product |-> 2, quantity |-> 2, customizations |-> << >>],
       [product |-> 11, quantity |-> 1, customizations |-> << >>] >>

\* C12: for every cart the till can hold, the subtotal is the sum of
\* price * quantity over its lines, the total is subtotal + tax, and the tax
\* shown is subtotal * 0.08 to the nearest cent; two Latte at 3.50 and a
\* Croissant at 2.00 show 9.00, 0.72 and 9.72.
C12_CartTotals ==
    LET t == OrderTotals(current_order, products)
        l == OrderLabels(current_order, products)
    IN  /\ t.subtotal = CartSum(current_order, Len(current_order))
        /\ l.subtotal = t.subtotal
        /\ t.total = t.subtotal + t.tax
        /\ l.total = l.subtotal + l.tax
        /\ l.tax % 100 = 0
        /\ 100 * l.tax - 8 * t.subtotal \in -5000 .. 5000
        /\ OrderLabels(LatteCroissantCart, SeedPrices) =
              [subtotal |-> 90000, tax |-> 7200, total |-> 97200]

\* After a remove, the cart holds two lines, one of them of two units.
C12_Witness ==
    /\ last.op = "remove"
    /\ Len(current_order) = 2
    /\ current_order[1].quantity = 2
    /\ current_order[2].quantity = 1
    /\ OrderLabels(current_order, products).tax > 0

\* The store holds exactly one orders row of the till, with one order_items
\* row per line of cart: its product, its quantity and the product's price.
Persisted(cart) ==
    /\ Len(RowsBy(orders, TillConn)) = 1
    /\ LET rows == ItemsOfOrder(RowsBy(orders, TillConn)[1].id)
       IN  /\ Len(rows) = Len(cart)
           /\ \A i \in 1 .. Len(cart) :
                 /\ rows[i].product_id = cart[i].product
                 /\ rows[i].quantity = cart[i].quantity
                 /\ rows[i].unit_price = products[cart[i].product]

\* C13: when a charge has emptied the cart, the store holds one orders row
\* for it and one order_items row per line the cart had.
C13_ChargePersistsCart ==
    (last.op = "charge" /\ current_order = << >>) => Persisted(last.before)

\* The first n rows of table are the same rows in the next state.
RowsKept(table, next) ==
    /\ Len(next) >= Len(table)
    /\ \A k \in 1 .. Len(table) : next[k] = table[k]

\* C14: a committed orders row and its order_items rows stay as they are in
\* every later state: no further call, failed call or price edit changes or
\* deletes them, and each item keeps the unit price it was sold at.
C14_CommittedRowsKept ==
    [][RowsKept(orders, orders') /\ RowsKept(order_items, order_items')]_vars

\* Product 1 was sold at 2.50 by a call, and its price was edited afterwards.
C14_Witness ==
    /\ products[1] # SeedPrices[1]
    /\ \E k \in 1 .. Len(order_items) :
          /\ order_items[k].src \in Conns
          /\ order_items[k].product_id = 1
          /\ order_items[k].unit_price = SeedPrices[1]
    /\ \E c \in Conns : result[c].status = "failed"

\* C15: what a reader finds in the tables is whole at every moment: every
\* orders row a call committed has all the order_items rows of that call,
\* and every order_items row belongs to the orders row of the transaction
\* that wrote it.
C15_ReadersSeeWholeOrders ==
    /\ \A k \in 1 .. Len(orders) :
          orders[k].src \in Conns =>
              LET rows == ItemsOfOrder(orders[k].id)
              IN  /\ Len(rows) = Len(args[orders[k].src].items)
                  /\ \A i \in 1 .. Len(rows) : rows[i].src = orders[k].src
    /\ \A k \in 1 .. Len(order_items) :
          \E n \in 1 .. Len(orders) :
              /\ orders[n].id = order_items[k].order_id
              /\ orders[n].src = order_items[k].src

\* One call has committed an order of two items while the other holds the
\* write lock with rows of its own not yet committed.
C15_Witness ==
    \E c, d \in Conns :
        /\ result[c].status = "ok"
        /\ Len(args[c].items) = 2
        /\ pc[d] = "insert_items"
        /\ pend_order[d] # << >>
        /\ pend_items[d] # << >>

\* The orders rows created on day d, by position.
OrdersOfDay(d) == { k \in 1 .. Len(orders) : orders[k].created_day = d }

RECURSIVE DayTotal(_, _)
\* The sum of total over the first n orders rows that were created on day d.
DayTotal(n, d) ==
    IF n = 0 THEN 0
    ELSE DayTotal(n - 1, d)
         + (IF orders[n].created_day = d THEN orders[n].total ELSE 0)

RECURSIVE DayTax(_, _)
\* The sum of tax over the first n orders rows that were created on day d.
DayTax(n, d) ==
    IF n = 0 THEN 0
    ELSE DayTax(n - 1, d)
         + (IF orders[n].created_day = d THEN orders[n].tax ELSE 0)

\* C16: for a date on which no order was created, get_daily_sales returns
\* order count 0, total sales 0, total tax 0 and average order value 0.
C16_EmptyDayAllZero ==
    \A d \in ReportDates :
        OrdersOfDay(d) = {} =>
            GetDailySales(d) = [order_count |-> 0, total_sales |-> 0,
                                total_tax |-> 0, avg_order_value |-> 0]

\* Both calls failed: the store holds the synthesized days and no order of
\* today.
C16_Witness ==
    /\ \A c \in Conns : result[c].status = "failed"
    /\ OrdersOfDay(Today) = {}
    /\ OrdersOfDay(0) # {}
    /\ GetDailySales(Today).order_count = 0

\* C17: for every date, get_daily_sales returns the number of orders created
\* on that day, the sum of their totals, the sum of their taxes and the
\* quotient of total sales by order count; orders of other days add nothing.
C17_DailySalesAggregates ==
    \A d \in ReportDates :
        LET r == GetDailySales(d)
            n == Cardinality(OrdersOfDay(d))
        IN  /\ r.order_count = n
            /\ r.total_sales = DayTotal(Len(orders), d)
            /\ r.total_tax = DayTax(Len(orders), d)
            /\ n > 0 => /\ r.avg_order_value * n <= r.total_sales
                        /\ r.total_sales < (r.avg_order_value + 1) * n

\* Two calls of today committed orders of different totals beside the
\* synthesized days.
C17_Witness ==
    /\ GetDailySales(Today).order_count = 2
    /\ \E i, j \in OrdersOfDay(Today) : orders[i].total # orders[j].total
    /\ GetDailySales(0).order_count = MinDailyOrders
    /\ GetDailySales(0).total_sales > 0

\* What get_low_stock_items must return.
LowStockPost ==
    LET low == { p \in ProductIds :
                    inventory[p].current_stock <= inventory[p].min_stock }
    IN  /\ Len(low_stock') = Cardinality(low)
        /\ \A p \in low :
              \E i \in 1 .. Len(low_stock') :
                  low_stock'[i] = [name |-> SeedNames[p],
                                   current_stock |-> inventory[p].current_stock,
                                   min_stock |-> inventory[p].min_stock]
        /\ \A i \in 1 .. Len(low_stock') - 1 :
              low_stock'[i].current_stock <= low_stock'[i + 1].current_stock

\* C18: get_low_stock_items returns exactly the products whose current_stock
\* is at most min_stock, each once as (name, current_stock, min_stock), a
\* product at its minimum included, in ascending order of current_stock.
C18_LowStockExact == [][GetLowStockItems => LowStockPost]_vars

\* The report lists a product below its minimum before one at its minimum,
\* and leaves out a product above it.
C18_Witness ==
    /\ Len(low_stock) = 2
    /\ low_stock[1].current_stock < low_stock[1].min_stock
    /\ low_stock[2].current_stock = low_stock[2].min_stock
    /\ \E p \in ProductIds : inventory[p].current_stock > inventory[p].min_stock

\* The orders written so far in the run whose day is d, by position.
WrittenOn(d) == { k \in 1 .. Len(seed.written) : seed.written[k].created_day = d }

ListedProducts == { answer.rows[i] : i \in DOMAIN answer.rows }

\* A returned list has no product twice and runs by name.
ListedOnceByName ==
    /\ \A i, j \in DOMAIN answer.rows : i # j => answer.rows[i] # answer.rows[j]
    /\ \A i, j \in DOMAIN answer.rows :
          i < j => TextRank(catalog[answer.rows[i]].name)
                     <= TextRank(catalog[answer.rows[j]].name)

\* C21: get_products_by_category (of db_manager.py and of main.py) called
\* with a category other than "All" returns the products of that category
\* whose is_available is set, each once, ordered by name; when there is no
\* such product the list is empty.
C21_CategoryListing ==
    (/\ answer.op \in { "get_products_by_category",
                        "main.get_products_by_category" }
     /\ answer.arg # "All") =>
        /\ ListedProducts =
              { p \in DOMAIN catalog : /\ catalog[p].category = answer.arg
                                       /\ catalog[p].is_available }
        /\ ListedOnceByName
        /\ (~ \E p \in DOMAIN catalog : /\ catalog[p].category = answer.arg
                                        /\ catalog[p].is_available)
              => answer.rows = << >>

\* C21 witness: a listing of two products in name order against their id
\* order, which leaves out an unavailable product of the category.
C21_Witness ==
    /\ answer.op = "get_products_by_category"
    /\ answer.arg = "Coffee"
    /\ Len(answer.rows) = 2
    /\ answer.rows[1] > answer.rows[2]
    /\ catalog[answer.rows[1]].name # catalog[answer.rows[2]].name
    /\ \E p \in DOMAIN catalog : /\ catalog[p].category = "Coffee"
                                 /\ ~ catalog[p].is_available

\* C22: get_products_by_category called with "All" returns every
\* available product of every category, each once, ordered by category
\* and then by name.
C22_AllListsEveryAvailable ==
    (/\ answer.op \in { "get_products_by_category",
                        "main.get_products_by_category" }
     /\ answer.arg = "All") =>
        /\ ListedProducts = { p \in DOMAIN catalog : catalog[p].is_available }
        /\ \A i, j \in DOMAIN answer.rows :
              i # j => answer.rows[i] # answer.rows[j]
        /\ \A i, j \in DOMAIN answer.rows :
              i < j => ~ KeyBefore(CategoryNameKey[answer.rows[j]],
                                   CategoryNameKey[answer.rows[i]])

\* C23: get_product_options returns the options of the product, each
\* once, ordered by option_name and then by option_value, and raises
\* NotFound when the products table has no row of the given id.
C23_OptionsOrNotFound ==
    answer.op = "get_product_options" =>
        IF answer.arg \in DOMAIN catalog
        THEN /\ answer.err = ""
             /\ { answer.rows[i] : i \in DOMAIN answer.rows } =
                   { k \in DOMAIN product_options :
                       product_options[k].product_id = answer.arg }
             /\ \A i, j \in DOMAIN answer.rows :
                   i < j => KeyBefore(OptionKey[answer.rows[i]],
                                      OptionKey[answer.rows[j]])
        ELSE answer.err = "NotFound"

\* C24: in the store of db_manager.py every inventory row holds a
\* current_stock of 0 or more, and the products with an inventory row are
\* all the products (the rows are kept by product_id, which is UNIQUE).
C24_InventoryOnePerProduct ==
    boot.program = "db_manager" =>
        /\ \A p \in DOMAIN inventory : inventory[p].current_stock >= 0
        /\ DOMAIN inventory = DOMAIN products

\* C24 witness: a seeded store whose inventory holds the lowest and the
\* highest drawn stock.
C24_Witness ==
    /\ boot.program = "db_manager"
    /\ products # << >>
    /\ \E p, q \in DOMAIN inventory :
          /\ inventory[p].current_stock = LowestSeedStock
          /\ inventory[q].current_stock = HighestSeedStock

\* No table of the store holds a row.
Unseeded ==
    /\ products = << >> /\ catalog = << >> /\ product_options = << >>
    /\ customers = << >> /\ users = << >> /\ inventory = << >>
    /\ orders = << >> /\ order_items = << >>

\* The store holds the seed data of db_manager.py once: the seed rows of
\* every table, an inventory row of a drawn stock for each product, and
\* the synthesized history of one run.
SeededOnce ==
    /\ products = SeededProducts /\ catalog = SeededCatalog
    /\ product_options = SeededOptions
    /\ customers = SeededCustomers /\ users = SeededUsers
    /\ inventory \in [ProductIds -> [current_stock : SeedStockDraws,
                                     min_stock : { SeedMinStock }]]
    /\ \E n \in DailyOrderDraws :
          /\ orders = SeededStore(n).orders
          /\ order_items = SeededStore(n).items

\* The store holds the seed data of main.py once: its products.
MainSeededOnce ==
    /\ products = SeededProducts /\ catalog = SeededCatalog
    /\ product_options = << >> /\ customers = << >> /\ users = << >>
    /\ inventory = << >> /\ orders = << >> /\ order_items = << >>

SeededOnceOrNever ==
    \/ Unseeded
    \/ boot.program = "db_manager" /\ SeededOnce
    \/ boot.program = "main" /\ MainSeededOnce

\* C28: whatever constructor calls are made, and whichever of them raise
\* while seeding, the committed tables are all empty or hold one complete
\* copy of the seed data; a constructor step changes a row only when the
\* products table is empty, and then it takes the store from unseeded to
\* seeded in one commit.
C28_SeededOnceOrNever ==
    /\ [] SeededOnceOrNever
    /\ [][StoreIsSeeded => UNCHANGED tables]_vars
    /\ [][tables' # tables => Unseeded /\ ~ Unseeded']_vars

\* C28 witness: after a constructor call that raised while seeding and
\* one that seeded, a further call stands at its check of a store that
\* holds the seed data.
C28_Witness ==
    /\ boot.program = "db_manager"
    /\ boot.faults > 0
    /\ boot.pc = "check"
    /\ SeededOnce

\* C25: a step of create_order, in a call that returns or in one that
\* raises, changes no row of products, product_options, customers,
\* inventory or users (the stock of the products sold included); a call of
\* get_products_by_category, get_product_options, get_daily_sales or
\* get_low_stock_items changes no row of any table.
C25_WritesOrdersOnly ==
    [][/\ (\E c \in Conns : CreateOrderStep(c)) =>
             UNCHANGED << products, catalog, product_options, customers,
                          inventory, users >>
       /\ ReadStep => UNCHANGED tables]_vars

\* C25 witness: a create_order call has committed an order of a seeded
\* product, and a report has been read after it.
C25_Witness ==
    /\ result[TillConn].status = "ok"
    /\ \E k \in DOMAIN order_items :
          /\ order_items[k].src = TillConn
          /\ order_items[k].product_id \in DOMAIN inventory
    /\ answer.op = "get_daily_sales"
    /\ answer.arg = Today

C27_FailedChargeKeepsCart ==
    (/\ last.op = "charge"
     /\ pc[TillConn] = "returned"
     /\ result[TillConn].status = "failed") =>
        /\ current_order = last.before
        /\ order_number = FirstOrderNumber
        /\ RowsBy(orders, TillConn) = << >>
        /\ RowsBy(order_items, TillConn) = << >>

\* C27 witness: the charge of a cart of two lines has failed after the
\* orders row and a line item were written in its transaction.
C27_Witness ==
    /\ last.op = "charge"
    /\ pc[TillConn] = "returned"
    /\ result[TillConn].status = "failed"
    /\ Len(current_order) = 2
    /\ \E i \in DOMAIN current_order : current_order[i].quantity > 1

\* C29: in every state of a seeded store on which create_order and the
\* read operations are called, each inventory row holds a current_stock
\* of 15 to 50 above its min_stock of 10, so that get_low_stock_items
\* would return the empty list, and every call of it does.
C29_NeverLowOnStock ==
    /\ [](/\ \A p \in DOMAIN inventory :
               /\ inventory[p].current_stock
                     \in LowestSeedStock .. HighestSeedStock
               /\ inventory[p].min_stock = SeedMinStock
          /\ OrderedByStock(LowStockRows) = { << >> })
    /\ [][GetLowStockItems => low_stock' = << >>]_vars

\* C29 witness: a sale of two units of a stocked product is committed.
C29_Witness ==
    /\ pc[TillConn] = "done"
    /\ \E k \in DOMAIN order_items :
          /\ order_items[k].src = TillConn
          /\ order_items[k].quantity = 2
          /\ order_items[k].product_id \in DOMAIN inventory

\* C30: every line of the cart has a quantity of 1 or more, and the list
\* a charge has handed to create_order is not empty and has a quantity of
\* 1 or more in every line item.
C30_CartQuantitiesPositive ==
    /\ \A i \in DOMAIN current_order : current_order[i].quantity >= 1
    /\ pc[TillConn] # "idle" =>
          /\ args[TillConn].items # << >>
          /\ \A i \in DOMAIN args[TillConn].items :
                args[TillConn].items[i].quantity >= 1

\* C30 witness: a charge has handed over a cart of two lines, one of them
\* driven to the largest quantity, and create_order has not returned.
C30_Witness ==
    /\ last.op = "charge"
    /\ pc[TillConn] = "insert_order"
    /\ Len(args[TillConn].items) = 2
    /\ \E i \in DOMAIN args[TillConn].items :
          args[TillConn].items[i].quantity = MaxCartQty
    /\ \E i \in DOMAIN args[TillConn].items :
          args[TillConn].items[i].quantity = 1

=============================================================================
